---- MODULE Spec2Model ----
(***************************************************************************)
(* Resnet.py as a state machine: the script builds a layer graph, compiles *)
(* the model, fits it once without callbacks and once with the             *)
(* ModelCheckpoint and LearningRateScheduler callbacks.                    *)
(*                                                                         *)
(* Units.  Rates (lr, decay, the factor 1e-3) are fixed-point numbers in   *)
(* units of 1e-6 (Scale), so 1e-3 is 1000 and 1e-6 is 1.  The step size    *)
(* the optimizer applies to a batch (rate_first, rate_last) is kept a      *)
(* thousand times finer, in units of 1e-9, rounded down.  A validation     *)
(* accuracy is one of the levels 0..MaxAcc.  The weights of the model are  *)
(* abstracted to the number of training epochs applied to them.            *)
(***************************************************************************)
EXTENDS Integers, Sequences, FiniteSets, TLC

\* ---------------------------------------------------------------- bounds
MaxAcc == 2

\* ------------------------------------------------------- program constants
Scale == 1000000
InputH == 32
InputW == 32
InputC == 3
N == 10
OptLr == 1000
OptDecay == 1
Epochs1 == 100
Epochs2 == 100
BatchSize == 128
TrainSize == 50000
LrInitial == 1000
LrFactor == 1000
LrBoundary == 60
NegInf == -1
NoFile == -1

VARIABLES
  pc,          \* position in the script / in the running fit loop
  it,          \* iterations completed by the current `for` loop
  nodes,       \* the layer graph: sequence of [op, ins, shape, k, s]
  conv, bn, act, act1, skip, act1_downsampled, skip_downsampled,
               \* the script's tensor variables (index into nodes, 0 = unbound)
  shown,       \* the shape displayed by the bare `act1` cell
  gap, final_dense, softmax,
  lr,          \* model.optimizer.lr
  decay,       \* model.optimizer.decay
  iterations,  \* model.optimizer.iterations: batches applied so far
  rate_first,  \* step size applied to the first batch of the last epoch
  rate_last,   \* step size applied to the last batch of the last epoch
  weights,     \* number of training epochs applied to the model's weights
  fit,         \* which model.fit call is running (0 = none yet)
  callbacks,   \* the callbacks list of the running fit
  epoch,       \* epoch index of the running fit
  val_acc,     \* logs['val_acc'] of the current epoch
  best,        \* ModelCheckpoint.best
  ckpt,        \* the weights stored at './checkpoints' (NoFile = none)
  printed,     \* the rates printed by lr_schedule, in call order
  prev_max     \* largest val_acc logged by earlier epochs of the running fit

vars == <<pc, it, nodes, conv, bn, act, act1, skip, act1_downsampled,
          skip_downsampled, shown, gap, final_dense, softmax, lr, weights,
          fit, callbacks, epoch, val_acc, best, ckpt, printed, prev_max,
          decay, iterations, rate_first, rate_last>>

graphVars == <<nodes, conv, bn, act, act1, skip, act1_downsampled,
               skip_downsampled>>
headVars == <<shown, gap, final_dense, softmax>>
trainVars == <<lr, weights, fit, callbacks, epoch, val_acc, best, ckpt,
               printed, prev_max, decay, iterations, rate_first, rate_last>>

\* ------------------------------------------------------------ layer graph
Shape(h, w, c) == [h |-> h, w |-> w, c |-> c]

\* padding='same': the spatial size is ceil(size / stride)
SameOut(size, stride) == (size + stride - 1) \div stride

Conv2D(filters, kernel, strides, x, g) ==
  [op |-> "Conv2D", ins |-> <<x>>, k |-> kernel, s |-> strides,
   shape |-> Shape(SameOut(g[x].shape.h, strides),
                   SameOut(g[x].shape.w, strides), filters)]

BatchNormalization(x, g) ==
  [op |-> "BatchNormalization", ins |-> <<x>>, k |-> 0, s |-> 0,
   shape |-> g[x].shape]

Activation(kind, x, g) ==
  [op |-> kind, ins |-> <<x>>, k |-> 0, s |-> 0, shape |-> g[x].shape]

\* kl.add([x, y]); the result has the shape of its first input
add(x, y, g) ==
  [op |-> "add", ins |-> <<x, y>>, k |-> 0, s |-> 0, shape |-> g[x].shape]

\* The loop body with the final activation applied to the un-added output.
ResidualBody_unadded(filters, g, a1) ==
  LET n  == Len(g)
      g1 == Append(g,  Conv2D(filters, 3, 1, a1, g))
      g2 == Append(g1, BatchNormalization(n + 1, g1))
      g3 == Append(g2, Activation("relu", n + 2, g2))
      g4 == Append(g3, Conv2D(filters, 3, 1, n + 3, g3))
      g5 == Append(g4, BatchNormalization(n + 4, g4))
      g6 == Append(g5, add(a1, n + 5, g5))
      g7 == Append(g6, Activation("relu", n + 5, g6))
  IN  [nodes |-> g7, conv |-> n + 4, bn |-> n + 5, act |-> n + 3,
       skip |-> n + 6, act1 |-> n + 7]

\* One iteration of a residual loop body: conv-bn-relu-conv-bn, add, relu.
ResidualBody(filters, g, a1) ==
  LET n  == Len(g)
      g1 == Append(g,  Conv2D(filters, 3, 1, a1, g))
      g2 == Append(g1, BatchNormalization(n + 1, g1))
      g3 == Append(g2, Activation("relu", n + 2, g2))
      g4 == Append(g3, Conv2D(filters, 3, 1, n + 3, g3))
      g5 == Append(g4, BatchNormalization(n + 4, g4))
      g6 == Append(g5, add(a1, n + 5, g5))
      g7 == Append(g6, Activation("relu", n + 6, g6))
  IN  [nodes |-> g7, conv |-> n + 4, bn |-> n + 5, act |-> n + 3,
       skip |-> n + 6, act1 |-> n + 7]

\* A downsampling block: strided conv-bn-relu-conv-bn, 1x1 strided
\* projection of the block input, add, relu.
DownsampleBody(filters, g, a1) ==
  LET n  == Len(g)
      g1 == Append(g,  Conv2D(filters, 3, 2, a1, g))
      g2 == Append(g1, BatchNormalization(n + 1, g1))
      g3 == Append(g2, Activation("relu", n + 2, g2))
      g4 == Append(g3, Conv2D(filters, 3, 1, n + 3, g3))
      g5 == Append(g4, BatchNormalization(n + 4, g4))
      g6 == Append(g5, Conv2D(filters, 1, 2, a1, g5))
      g7 == Append(g6, add(n + 6, n + 5, g6))
      g8 == Append(g7, Activation("relu", n + 7, g7))
  IN  [nodes |-> g8, conv |-> n + 4, bn |-> n + 5, act |-> n + 3,
       act1_downsampled |-> n + 6, skip_downsampled |-> n + 7,
       act1 |-> n + 8]

\* ------------------------------------------------------------- callbacks
\* lr_schedule with the comparison reversed
lr_schedule_reversed(e) ==
  LET lr0 == LrInitial
  IN  IF e < LrBoundary THEN (lr0 * LrFactor) \div Scale ELSE lr0

\* lr_schedule with the boundary taken one epoch early
lr_schedule_early(e) ==
  LET lr0 == LrInitial
  IN  IF e >= LrBoundary THEN (lr0 * LrFactor) \div Scale ELSE lr0

\* def lr_schedule(epoch): lr = 1e-3; if epoch > 60: lr *= 1e-3
lr_schedule(e) ==
  LET lr0 == LrInitial
  IN  IF e > LrBoundary THEN (lr0 * LrFactor) \div Scale ELSE lr0

\* the comparison relaxed to "greater or equal"
monitor_op_ge(current, b) == current >= b

\* monitor='val_acc': the comparison is "greater than", best starts at -inf
monitor_op(current, b) == current > b

\* batches in one pass over x_train
BatchesPerEpoch == (TrainSize + BatchSize - 1) \div BatchSize

\* rmsprop with decay > 0 applies lr * 1/(1 + decay * iterations) to a
\* batch; l and d are in units of 1e-6, the result in units of 1e-9.
AppliedRate(l, d, t) ==
  LET num == l * Scale
      den == Scale + d * t
  IN  (num \div den) * 1000 + ((num % den) * 1000) \div den

Checkpoint == "checkpoint"
LrScheduler == "lr_scheduler"
Installed(cb) == \E k \in DOMAIN callbacks : callbacks[k] = cb

EpochsOf(f) == IF f = 1 THEN Epochs1 ELSE Epochs2

\* ------------------------------------------------------------------ script
Init ==
  /\ pc = "stem"
  /\ it = 0
  /\ nodes = << >>
  /\ conv = 0 /\ bn = 0 /\ act = 0 /\ act1 = 0 /\ skip = 0
  /\ act1_downsampled = 0 /\ skip_downsampled = 0
  /\ shown = Shape(0, 0, 0)
  /\ gap = 0 /\ final_dense = 0 /\ softmax = 0
  /\ lr = 0
  /\ weights = 0
  /\ fit = 0
  /\ callbacks = << >>
  /\ epoch = 0
  /\ val_acc = 0
  /\ best = NegInf
  /\ ckpt = NoFile
  /\ printed = << >>
  /\ prev_max = NegInf
  /\ decay = 0
  /\ iterations = 0
  /\ rate_first = 0
  /\ rate_last = 0

\* inputs = Input(shape); first convolution + BN + act
Stem ==
  /\ pc = "stem"
  /\ LET g0 == <<[op |-> "Input", ins |-> << >>, k |-> 0, s |-> 0,
                  shape |-> Shape(InputH, InputW, InputC)]>>
         g1 == Append(g0, Conv2D(16, 3, 1, 1, g0))
         g2 == Append(g1, BatchNormalization(2, g1))
         g3 == Append(g2, Activation("relu", 3, g2))
     IN  /\ nodes' = g3
         /\ conv' = 2 /\ bn' = 3 /\ act1' = 4
  /\ pc' = "loop16"
  /\ it' = 0
  /\ UNCHANGED <<act, skip, act1_downsampled, skip_downsampled>>
  /\ UNCHANGED headVars
  /\ UNCHANGED trainVars

ApplyResidual(filters) ==
  LET r == ResidualBody(filters, nodes, act1)
  IN  /\ nodes' = r.nodes
      /\ conv' = r.conv /\ bn' = r.bn /\ act' = r.act
      /\ skip' = r.skip /\ act1' = r.act1
      /\ UNCHANGED <<act1_downsampled, skip_downsampled>>

ApplyDownsample(filters) ==
  LET r == DownsampleBody(filters, nodes, act1)
  IN  /\ nodes' = r.nodes
      /\ conv' = r.conv /\ bn' = r.bn /\ act' = r.act
      /\ act1_downsampled' = r.act1_downsampled
      /\ skip_downsampled' = r.skip_downsampled
      /\ act1' = r.act1
      /\ UNCHANGED skip

\* for i in range(3): a 16-filter residual block
Loop16 ==
  /\ pc = "loop16"
  /\ it < 3
  /\ ApplyResidual(16)
  /\ it' = it + 1
  /\ pc' = IF it + 1 = 3 THEN "down32" ELSE "loop16"
  /\ UNCHANGED headVars
  /\ UNCHANGED trainVars

\* downsampling to 32 filters
Down32 ==
  /\ pc = "down32"
  /\ ApplyDownsample(32)
  /\ it' = 0
  /\ pc' = "loop32"
  /\ UNCHANGED headVars
  /\ UNCHANGED trainVars

\* for _ in range(2): a 32-filter residual block
Loop32 ==
  /\ pc = "loop32"
  /\ it < 2
  /\ ApplyResidual(32)
  /\ it' = it + 1
  /\ pc' = IF it + 1 = 2 THEN "down64" ELSE "loop32"
  /\ UNCHANGED headVars
  /\ UNCHANGED trainVars

\* downsampling to 64 filters
Down64 ==
  /\ pc = "down64"
  /\ ApplyDownsample(64)
  /\ it' = 0
  /\ pc' = "loop64"
  /\ UNCHANGED headVars
  /\ UNCHANGED trainVars

\* for _ in range(2): a 64-filter residual block
Loop64 ==
  /\ pc = "loop64"
  /\ it < 2
  /\ ApplyResidual(64)
  /\ it' = it + 1
  /\ pc' = IF it + 1 = 2 THEN "inspect" ELSE "loop64"
  /\ UNCHANGED headVars
  /\ UNCHANGED trainVars

\* the cell `act1`: display the tensor
Inspect ==
  /\ pc = "inspect"
  /\ shown' = nodes[act1].shape
  /\ pc' = "head"
  /\ UNCHANGED <<it, gap, final_dense, softmax>>
  /\ UNCHANGED graphVars
  /\ UNCHANGED trainVars

\* global average pooling, BN, dense, softmax
ClassifierHead ==
  /\ pc = "head"
  /\ LET n  == Len(nodes)
         g1 == Append(nodes,
                 [op |-> "GlobalAveragePooling2D", ins |-> <<act1>>,
                  k |-> 0, s |-> 0,
                  shape |-> Shape(1, 1, nodes[act1].shape.c)])
         g2 == Append(g1, BatchNormalization(n + 1, g1))
         g3 == Append(g2, [op |-> "Dense", ins |-> <<n + 2>>, k |-> 0,
                           s |-> 0, shape |-> Shape(1, 1, N)])
         g4 == Append(g3, Activation("softmax", n + 3, g3))
     IN  /\ nodes' = g4
         /\ gap' = n + 1 /\ bn' = n + 2
         /\ final_dense' = n + 3 /\ softmax' = n + 4
  /\ pc' = "compile"
  /\ UNCHANGED <<it, conv, act, act1, skip, act1_downsampled,
                 skip_downsampled, shown>>
  /\ UNCHANGED trainVars

\* km.Model, rmsprop(lr=0.001, decay=1e-6), model.compile
Compile ==
  /\ pc = "compile"
  /\ lr' = OptLr
  /\ decay' = OptDecay
  /\ iterations' = 0
  /\ pc' = "fit1"
  /\ UNCHANGED <<it, weights, fit, callbacks, epoch, val_acc, best, ckpt,
                 printed, prev_max, rate_first, rate_last>>
  /\ UNCHANGED graphVars
  /\ UNCHANGED headVars

\* model.fit(..., epochs=100, ...) without callbacks
CallFit1 ==
  /\ pc = "fit1"
  /\ fit' = 1
  /\ callbacks' = << >>
  /\ epoch' = 0
  /\ prev_max' = NegInf
  /\ pc' = "epoch_begin"
  /\ UNCHANGED <<it, lr, weights, val_acc, best, ckpt, printed>>
  /\ UNCHANGED <<decay, iterations, rate_first, rate_last>>
  /\ UNCHANGED graphVars
  /\ UNCHANGED headVars

\* checkpoint = kc.ModelCheckpoint(...); lr_scheduler = ...
DefineCallbacks ==
  /\ pc = "callbacks"
  /\ best' = NegInf
  /\ pc' = "fit2"
  /\ UNCHANGED <<it, lr, weights, fit, callbacks, epoch, val_acc, ckpt,
                 printed, prev_max>>
  /\ UNCHANGED <<decay, iterations, rate_first, rate_last>>
  /\ UNCHANGED graphVars
  /\ UNCHANGED headVars

\* model.fit(..., epochs=100, ..., callbacks=[checkpoint, lr_scheduler])
CallFit2 ==
  /\ pc = "fit2"
  /\ fit' = 2
  /\ callbacks' = <<Checkpoint, LrScheduler>>
  /\ epoch' = 0
  /\ prev_max' = NegInf
  /\ pc' = "epoch_begin"
  /\ UNCHANGED <<it, lr, weights, val_acc, best, ckpt, printed>>
  /\ UNCHANGED <<decay, iterations, rate_first, rate_last>>
  /\ UNCHANGED graphVars
  /\ UNCHANGED headVars

\* callbacks.on_epoch_begin(epoch): the scheduler sets the optimizer's lr
OnEpochBegin ==
  /\ pc = "epoch_begin"
  /\ IF Installed(LrScheduler)
       THEN /\ lr' = lr_schedule(epoch)
            /\ printed' = Append(printed, lr_schedule(epoch))
       ELSE UNCHANGED <<lr, printed>>
  /\ pc' = "train"
  /\ UNCHANGED <<it, weights, fit, callbacks, epoch, val_acc, best, ckpt,
                 prev_max>>
  /\ UNCHANGED <<decay, iterations, rate_first, rate_last>>
  /\ UNCHANGED graphVars
  /\ UNCHANGED headVars

\* one pass over the training data in batches of 128, each batch one
\* optimizer update, then validation on (x_test, y_test)
TrainEpoch ==
  /\ pc = "train"
  /\ weights' = weights + 1
  /\ rate_first' = AppliedRate(lr, decay, iterations)
  /\ rate_last' = AppliedRate(lr, decay, iterations + BatchesPerEpoch - 1)
  /\ iterations' = iterations + BatchesPerEpoch
  /\ UNCHANGED decay
  /\ \E a \in 0..MaxAcc : val_acc' = a
  /\ pc' = "epoch_end"
  /\ UNCHANGED <<it, lr, fit, callbacks, epoch, best, ckpt, printed,
                 prev_max>>
  /\ UNCHANGED graphVars
  /\ UNCHANGED headVars

\* callbacks.on_epoch_end(epoch, logs): save_best_only checkpointing
OnEpochEnd ==
  /\ pc = "epoch_end"
  /\ IF Installed(Checkpoint) /\ monitor_op(val_acc, best)
       THEN /\ best' = val_acc
            /\ ckpt' = weights
       ELSE UNCHANGED <<best, ckpt>>
  /\ prev_max' = IF val_acc > prev_max THEN val_acc ELSE prev_max
  /\ epoch' = epoch + 1
  /\ pc' = IF epoch + 1 < EpochsOf(fit) THEN "epoch_begin"
           ELSE IF fit = 1 THEN "callbacks" ELSE "done"
  /\ UNCHANGED <<it, lr, weights, fit, callbacks, val_acc, printed>>
  /\ UNCHANGED <<decay, iterations, rate_first, rate_last>>
  /\ UNCHANGED graphVars
  /\ UNCHANGED headVars

Next ==
  \/ Stem
  \/ Loop16
  \/ Down32
  \/ Loop32
  \/ Down64
  \/ Loop64
  \/ Inspect
  \/ ClassifierHead
  \/ Compile
  \/ CallFit1
  \/ DefineCallbacks
  \/ CallFit2
  \/ OnEpochBegin
  \/ TrainEpoch
  \/ OnEpochEnd

Spec == Init /\ [][Next]_vars

TypeOK ==
  /\ pc \in {"stem", "loop16", "down32", "loop32", "down64", "loop64",
             "inspect", "head", "compile", "fit1", "callbacks", "fit2",
             "epoch_begin", "train", "epoch_end", "done"}
  /\ it \in 0..3
  /\ act1 \in 0..Len(nodes)
  /\ weights \in 0..(Epochs1 + Epochs2)
  /\ fit \in 0..2
  /\ epoch \in 0..100
  /\ val_acc \in 0..MaxAcc
  /\ best \in NegInf..MaxAcc
  /\ ckpt \in NoFile..(Epochs1 + Epochs2)
  /\ decay \in {0, OptDecay}
  /\ iterations = weights * BatchesPerEpoch
  /\ rate_first \in 0..(OptLr * 1000)
  /\ rate_last \in 0..rate_first

\* ------------------------------------------------------------- properties
FitWithCallbacks == fit = 2

\* A step of on_epoch_end in the fit that installed the checkpoint callback.
CheckpointStep ==
  /\ pc = "epoch_end"
  /\ pc' # "epoch_end"
  /\ FitWithCallbacks

\* C1: in the fit with the ModelCheckpoint callback, at the end of every
\* epoch the file './checkpoints' is written (with the current weights) if
\* and only if the epoch's val_acc is strictly greater than the largest
\* val_acc of all earlier epochs of that fit; otherwise the stored
\* checkpoint is left unchanged.
C1_CheckpointIffImproved ==
  [][CheckpointStep =>
       /\ (val_acc > prev_max) => (ckpt' = weights /\ ckpt' # ckpt)
       /\ (val_acc <= prev_max) => (ckpt' = ckpt)]_vars

\* C1 witness: an epoch of the second fit ended with a val_acc equal to the
\* best so far and an older checkpoint was kept.
C1_Witness ==
  /\ FitWithCallbacks
  /\ pc = "epoch_begin"
  /\ epoch >= 2
  /\ val_acc = best
  /\ ckpt # NoFile
  /\ ckpt < weights

\* C2: the rates returned by lr_schedule for epochs 0..99, in order, never
\* increase, the rate for epoch 99 is strictly below the rate for epoch 0,
\* and no rate exceeds the initial 1e-3.
C2_ScheduleDecreases ==
  /\ \A i, j \in DOMAIN printed : i <= j => printed[j] <= printed[i]
  /\ \A i \in DOMAIN printed : printed[i] <= LrInitial
  /\ Len(printed) = Epochs2 => printed[Epochs2] < printed[1]

\* C2 witness: lr_schedule has been called for every epoch 0..99.
C2_Witness ==
  /\ pc = "done"
  /\ Len(printed) = Epochs2
  /\ printed[1] = LrInitial
  /\ printed[Epochs2] < LrInitial

AddNodes == {a \in DOMAIN nodes : nodes[a].op = "add"}
In1(n) == nodes[n].ins[1]

\* The input of the first convolution of the block that ends in add node a.
BlockEntry(a) == In1(In1(In1(In1(In1(nodes[a].ins[2])))))

\* The add node a closes a well-formed residual block.
WellFormedBlock(a) ==
  LET b2 == nodes[a].ins[2]
      c2 == In1(b2)
      r  == In1(c2)
      b1 == In1(r)
      c1 == In1(b1)
      e  == In1(c1)
      x  == nodes[a].ins[1]
  IN  /\ nodes[b2].op = "BatchNormalization"
      /\ nodes[c2].op = "Conv2D" /\ nodes[c2].k = 3
      /\ nodes[r].op = "relu"
      /\ nodes[b1].op = "BatchNormalization"
      /\ nodes[c1].op = "Conv2D" /\ nodes[c1].k = 3
      \* the skip operand is the block input, or its 1x1 stride-2
      \* projection in a downsampling block
      /\ \/ x = e /\ nodes[c1].s = 1
         \/ /\ nodes[c1].s = 2
            /\ nodes[x].op = "Conv2D" /\ nodes[x].k = 1 /\ nodes[x].s = 2
            /\ nodes[x].ins = <<e>>
      /\ nodes[x].shape = nodes[b2].shape
      \* the block input is the stem activation or the activation of the
      \* immediately preceding block's add
      /\ nodes[e].op = "relu"
      /\ \/ e = 4 /\ \A o \in AddNodes : o >= a
         \/ /\ In1(e) \in AddNodes
            /\ \A o \in AddNodes : ~(In1(e) < o /\ o < a)
      \* the sum is consumed by a relu and by nothing else; the un-added
      \* output of the second BatchNormalization only by the add
      /\ \A m \in DOMAIN nodes :
           /\ (\E q \in DOMAIN nodes[m].ins : nodes[m].ins[q] = a)
                => nodes[m].op = "relu" /\ m = a + 1
           /\ (\E q \in DOMAIN nodes[m].ins : nodes[m].ins[q] = b2)
                => m = a
      /\ (a + 1) \in DOMAIN nodes
      /\ nodes[a + 1].op = "relu" /\ nodes[a + 1].ins = <<a>>

BlocksWith(c) == {a \in AddNodes : nodes[a].shape.c = c}

\* C3: every residual block of the graph adds the block's input (or its
\* 1x1 stride-2 projection) to the output of the block's second
\* BatchNormalization and only then applies the ReLU that is the next
\* block's input; the finished graph has 3 blocks at 16, 3 at 32 and 3 at
\* 64 filters, and act1 is the activation of the last block's sum.
C3_ResidualBlocks ==
  /\ \A a \in AddNodes : WellFormedBlock(a)
  /\ (act1 # 0 /\ AddNodes # {}) =>
        /\ nodes[act1].op = "relu"
        /\ In1(act1) \in AddNodes
        /\ \A o \in AddNodes : o <= In1(act1)
  /\ pc \notin {"stem", "loop16", "down32", "loop32", "down64", "loop64"} =>
        /\ Cardinality(BlocksWith(16)) = 3
        /\ Cardinality(BlocksWith(32)) = 3
        /\ Cardinality(BlocksWith(64)) = 3

\* C3 witness: the model definition is complete with its nine blocks.
C3_Witness ==
  /\ pc = "inspect"
  /\ Cardinality(AddNodes) = 9

\* C4 (as claimed): every training epoch runs with both callbacks installed.
C4_EveryEpochHasCallbacks ==
  [][weights' # weights =>
       Installed(Checkpoint) /\ Installed(LrScheduler)]_vars

\* C5 (as claimed): when the script has finished, the model's weights have
\* been updated over exactly 100 training epochs in total.
C5_HundredEpochsInTotal ==
  pc = "done" => weights = 100

\* C6 (as claimed): the act1 inspected after the model definition, and
\* passed to global average pooling, has size 16x16x32.
C6_Act1Is16x16x32 ==
  /\ pc = "head" => shown = Shape(16, 16, 32)
  /\ gap # 0 => nodes[In1(gap)].shape = Shape(16, 16, 32)

\* C7 (as claimed): in the fit with the LearningRateScheduler the
\* learning rate in force during epoch e is 1e-3 for e in 0..60 and 1e-6
\* for e in 61..99, and never falls below 1e-6.
C7_RateInForce ==
  (FitWithCallbacks /\ pc = "epoch_end") =>
     /\ epoch \in 0..60 =>
          rate_first = LrInitial * 1000 /\ rate_last = LrInitial * 1000
     /\ epoch \in 61..99 => rate_first = 1000 /\ rate_last = 1000
     /\ rate_last >= 1000

\* C7 (amended): in the fit with the LearningRateScheduler, the value set
\* on the optimizer's lr at the start of epoch e is lr_schedule(e): 1e-3
\* for e in 0..60 and 1e-6 for e in 61..99, recomputed on each call and so
\* never below 1e-6; the step size the optimizer applies is that value
\* divided by 1 + decay * iterations, strictly below it on every batch of
\* that fit and below 1e-6 in epochs 61..99.
C7_RateSetAtEpochBegin ==
  /\ (FitWithCallbacks /\ pc \in {"train", "epoch_end"}) =>
        /\ epoch \in 0..60 => lr = LrInitial
        /\ epoch \in 61..99 => lr = 1
        /\ printed[epoch + 1] = lr
        /\ lr >= 1
  /\ (FitWithCallbacks /\ pc = "epoch_end") =>
        /\ rate_first < lr * 1000
        /\ rate_last <= rate_first
        /\ rate_last > 0
        /\ epoch \in 61..99 => rate_first < 1000

\* C7 witness: epoch 62 of the second fit has trained with lr set to 1e-6
\* and a smaller applied step size.
C7_Witness ==
  /\ FitWithCallbacks
  /\ pc = "epoch_end"
  /\ epoch = 62
  /\ lr = 1
  /\ rate_first < 1000
  /\ rate_first > 0

====
